---- MODULE Spec2Model ----
(***************************************************************************)
(* Model of the filesystem storage client (src/src/file_stroage_client.rs) *)
(* and of the addressing rules of the StorageClient trait (src/src/lib.rs) *)
(* with the JSON storage format (src/src/json.rs).                         *)
(*                                                                         *)
(* The filesystem is a set of directories and a map from file paths to     *)
(* byte contents.  A path is the sequence of its segments.  Every async    *)
(* filesystem call of the client (create_dir_all, read, File::create,      *)
(* remove_file, remove_dir_all) is one atomic step.  put is three steps:   *)
(* File::create (create or truncate), then serialize + write_all, which    *)
(* hands the bytes to the file's background write and returns, then the    *)
(* background write itself: put never calls flush, so the bytes reach the  *)
(* file some time after write_all has returned.                            *)
(***************************************************************************)
EXTENDS Naturals, Integers, Sequences, FiniteSets, Bags, TLC

\* Number of put calls (with their background writes) that can be in flight.
NumCalls == 2

\* Largest number of columns of a schema.
MaxColumns == 2

\* O::type_name() of the object types in use.
Types == {"TestObject", "TestStorageKey"}

\* Keys used by the callers.
Keys == {"test_key"}

\* The path component of the storage URL handed to the constructor.
Paths == {"", "/test_dir"}

\* Values of the string field of a stored object, as character sequences.
Payloads == {<<"a">>, <<"b", "b">>}

\* An object whose Serialize implementation reports an error.
Unserializable == <<"!">>

Objects == Payloads \cup {Unserializable}

\* Outcome of the operating system call an operation makes.
IOOutcomes == {"ok", "io_error"}

NoBytes == <<>>

VARIABLES
    client,      \* "none" before FileStorageClient::new succeeds, then "ready"
    storage_url, \* path of the client's storage_url
    dirs,        \* the directories that exist, as paths
    files,       \* function from the paths of the files that exist to their bytes
    calls,       \* the bag of put calls in flight and of background writes pending
    ret,         \* the operation that returned last and its result
    eval         \* a call of a function without effects: its argument and result

vars == <<client, storage_url, dirs, files, calls, ret, eval>>

----------------------------------------------------------------------------
\* Results, as sequences of strings.

OkUnit == <<"Ok">>

OkBool(b) == <<"Ok", IF b THEN "true" ELSE "false">>

OkNone == <<"Ok", "None">>

OkSome(v) == <<"Ok", "Some">> \o v

Err(kind) == <<"Err", kind>>

IsErr(r) == Len(r) > 0 /\ r[1] = "Err"

IsOk(r) == Len(r) > 0 /\ r[1] = "Ok"

Returned(op, t, k, r) == [op |-> op, type |-> t, key |-> k, res |-> r]

----------------------------------------------------------------------------
\* JsonStorageFormat: an object is written as '{' payload '}'.

SerializeFails(v) == v = Unserializable

\* An object with a Float64 field, the field finite or not a number.
FloatObjects == {<<"1.5">>, <<"NaN">>}

\* Faulty variant: the closing brace is not written.
serializeOpen(v) == <<"{">> \o v

\* serde_json writes a float that is not finite as null.
SerializeField(x) == IF x = "NaN" THEN "null" ELSE x

serialize(v) == <<"{">> \o [i \in 1..Len(v) |-> SerializeField(v[i])] \o <<"}">>

Letters == {"a", "b"}

\* The tokens a Float64 field is read from.
Numbers == {"1.5"}

\* deserialize succeeds on exactly one object literal with nothing after it.
Decodable(data) ==
    /\ Len(data) >= 2
    /\ data[1] = "{"
    /\ data[Len(data)] = "}"
    /\ \A i \in 2..(Len(data) - 1) : data[i] \in Letters \cup Numbers

deserialize(data) == SubSeq(data, 2, Len(data) - 1)

----------------------------------------------------------------------------
\* Addressing (StorageClient default methods).

directory == storage_url

\* Faulty variant: every type shares one partition.
object_directoryShared(t) == "objects"

object_directory(t) == t

ObjectDirPath(t) == <<directory, object_directory(t)>>

object_path(t, k) == <<directory, object_directory(t), k>>

----------------------------------------------------------------------------
\* The filesystem calls.

IsPrefix(p, q) == Len(p) <= Len(q) /\ SubSeq(q, 1, Len(p)) = p

Parent(p) == SubSeq(p, 1, Len(p) - 1)

\* create_dir_all: the directory and every missing ancestor.
CreateDirAll(ds, p) == ds \cup {SubSeq(p, 1, n) : n \in 1..Len(p)}

\* Faulty variant: remove_dir, which takes the directory alone.
RemoveDirAllDirsLeafOnly(ds, p) == ds \ {p}

\* remove_dir_all: the directory and everything below it.
RemoveDirAllDirs(ds, p) == {d \in ds : ~IsPrefix(p, d)}

Restrict(f, S) == [x \in S |-> f[x]]

\* Faulty variant: the files of the removed directory stay.
RemoveDirAllFilesKept(fs, p) == fs

RemoveDirAllFiles(fs, p) == Restrict(fs, {f \in DOMAIN fs : ~IsPrefix(p, f)})

RemoveFile(fs, p) == Restrict(fs, DOMAIN fs \ {p})

\* Faulty variant: every file of the store is truncated.
CreateTruncateAll(fs, p) == [f \in DOMAIN fs \cup {p} |-> NoBytes]

\* File::create: a new empty file, or the existing file truncated to length 0.
CreateTruncate(fs, p) == [f \in DOMAIN fs \cup {p} |-> IF f = p THEN NoBytes ELSE fs[f]]

\* Faulty variant: the file is opened for append.
WriteAtStartAppended(old, data) == old \o data

\* A write of data at offset 0 of a file holding old: bytes beyond the data stay.
WriteAtStart(old, data) ==
    IF Len(old) > Len(data)
    THEN data \o SubSeq(old, Len(data) + 1, Len(old))
    ELSE data

WriteFile(fs, p, data) == [fs EXCEPT ![p] = WriteAtStart(fs[p], data)]

----------------------------------------------------------------------------
\* A put call between File::create and its return ("created"), or the background
\* write of a put that has returned ("buffered", arg holding the bytes).
Call(pc, t, k, arg, live, alone) ==
    [pc |-> pc, type |-> t, key |-> k, arg |-> arg, live |-> live, alone |-> alone]

CallPath(call) == object_path(call.type, call.key)

One(call) == SetToBag({call})

\* The bag of f[x] for the x of bag B.
MapBag(B, f) ==
    [y \in {f[x] : x \in BagToSet(B)} |->
        Cardinality({xi \in BagToSet(B) \X (1..BagCardinality(B)) :
                        f[xi[1]] = y /\ xi[2] <= CopiesIn(xi[1], B)})]

\* The calls of B that are in S.
FilterBag(B, S) == [x \in BagToSet(B) \cap S |-> B[x]]

----------------------------------------------------------------------------
\* PostgresType and its Display implementation. A type is a tuple of the variant
\* and its fields; an Option field is <<>> (None) or <<x>> (Some(x)).

None == <<>>

Some(x) == <<x>>

Precisions == {5, 10}

Scales == {-2, 2}

Lengths == {1, 255}

KeywordTypes ==
    { <<"SmallInt">>, <<"Integer">>, <<"BigInt">>, <<"Decimal">>, <<"Real">>,
      <<"DoublePrecision">>, <<"SmallSerial">>, <<"Serial">>, <<"BigSerial">>,
      <<"TEXT">>, <<"BYTEA">>, <<"DATE">>, <<"BOOLEAN">> }

PostgresTypes ==
    KeywordTypes
    \cup { <<"Numeric", p, s>> : p \in {None} \cup {Some(x) : x \in Precisions},
                                 s \in {None} \cup {Some(x) : x \in Scales} }
    \cup { <<"VARCHAR", n>> : n \in Lengths }
    \cup { <<"CHAR", n>> : n \in Lengths }
    \cup { <<"BPCHAR", n>> : n \in {None} \cup {Some(x) : x \in Lengths} }
    \cup { <<"TIMESTAMP", tz>> : tz \in BOOLEAN }
    \cup { <<"TIME", tz>> : tz \in BOOLEAN }

\* Faulty variant: the precision alone is rendered when the scale is missing.
fmtNumericPartial(precision, scale) ==
    IF precision # None /\ scale # None
    THEN "NUMERIC(" \o ToString(precision[1]) \o ", " \o ToString(scale[1]) \o ")"
    ELSE IF precision # None
    THEN "NUMERIC(" \o ToString(precision[1]) \o ")"
    ELSE "NUMERIC"

\* The Numeric arm of fmt.
fmtNumeric(precision, scale) ==
    IF precision # None /\ scale # None
    THEN "NUMERIC(" \o ToString(precision[1]) \o ", " \o ToString(scale[1]) \o ")"
    ELSE "NUMERIC"

\* Display::fmt of a PostgresType.
fmt(t) ==
    CASE t[1] = "SmallInt" -> "SMALLINT"
      [] t[1] = "Integer" -> "INTEGER"
      [] t[1] = "BigInt" -> "BIGINT"
      [] t[1] = "Decimal" -> "DECIMAL"
      [] t[1] = "Numeric" -> fmtNumeric(t[2], t[3])
      [] t[1] = "Real" -> "REAL"
      [] t[1] = "DoublePrecision" -> "DOUBLE PRECISION"
      [] t[1] = "SmallSerial" -> "SMALLSERIAL"
      [] t[1] = "Serial" -> "SERIAL"
      [] t[1] = "BigSerial" -> "BIGSERIAL"
      [] t[1] = "VARCHAR" -> "VARCHAR(" \o ToString(t[2]) \o ")"
      [] t[1] = "CHAR" -> "CHAR(" \o ToString(t[2]) \o ")"
      [] t[1] = "BPCHAR" ->
            IF t[2] # None THEN "BPCHAR(" \o ToString(t[2][1]) \o ")" ELSE "BPCHAR"
      [] t[1] = "TEXT" -> "TEXT"
      [] t[1] = "BYTEA" -> "BYTEA"
      [] t[1] = "TIMESTAMP" ->
            IF t[2] THEN "TIMESTAMP WITH TIME ZONE" ELSE "TIMESTAMP WITHOUT TIME ZONE"
      [] t[1] = "DATE" -> "DATE"
      [] t[1] = "TIME" ->
            IF t[2] THEN "TIME WITH TIME ZONE" ELSE "TIME WITHOUT TIME ZONE"
      [] t[1] = "BOOLEAN" -> "BOOLEAN"

----------------------------------------------------------------------------
\* StorageSchema and the objects that carry one. A schema's columns are the
\* entries of its OrderMap in insertion order, as <<name, type>> pairs.

ColumnNames == {"key", "value", "id"}

\* The types given to the columns of Postgres schemas.
ColumnTypes ==
    { <<"Integer">>, <<"VARCHAR", 255>>, <<"Numeric", Some(5), Some(2)>>,
      <<"TIMESTAMP", FALSE>> }

RustStandardTypes == { <<"String">>, <<"Int32">> }

\* The entry sequences of the OrderMaps from names to the types of T: the keys
\* of a map are distinct.
OrderMaps(T) ==
    UNION { { m \in [1..n -> ColumnNames \X T] :
                 \A i, j \in 1..n : m[i][1] = m[j][1] => i = j } : n \in 0..MaxColumns }

StorageSchema(variant, schema, primary_key) ==
    [variant |-> variant, schema |-> schema, primary_key |-> primary_key]

StorageSchemas ==
    { StorageSchema("Postgres", m, pk) : m \in OrderMaps(ColumnTypes), pk \in ColumnNames }
    \cup { StorageSchema("Standard", m, pk) : m \in OrderMaps(RustStandardTypes), pk \in ColumnNames }

\* An object type: what type_name() and schema() return.
StorageObject(type_name, schema) == [type_name |-> type_name, schema |-> schema]

StorageObjects == { StorageObject(n, sc) : n \in Types, sc \in StorageSchemas }

OkText(text) == <<"Ok", text>>

\* Faulty variant: the strings are joined last to first.
JoinReversed(strs, sep) ==
    LET j[i \in 0..Len(strs)] ==
          IF i = 0 THEN ""
          ELSE IF i = 1 THEN strs[Len(strs)]
          ELSE j[i - 1] \o sep \o strs[Len(strs) + 1 - i]
    IN j[Len(strs)]

\* Vec<String>::join
Join(strs, sep) ==
    LET j[i \in 0..Len(strs)] ==
          IF i = 0 THEN ""
          ELSE IF i = 1 THEN strs[1]
          ELSE j[i - 1] \o sep \o strs[i]
    IN j[Len(strs)]

\* Faulty variant: the variant of the schema is not looked at.
create_table_if_not_exists_queryUnchecked(O) ==
    OkText("CREATE TABLE IF NOT EXISTS " \o O.type_name \o " ("
           \o Join([i \in DOMAIN O.schema.schema |->
                      O.schema.schema[i][1] \o " " \o O.schema.schema[i][2][1]], ", ")
           \o ", PRIMARY KEY (" \o O.schema.primary_key \o "))")

\* PostgresStorageClient::create_table_if_not_exists_query::<O>()
create_table_if_not_exists_query(O) ==
    IF O.schema.variant = "Postgres"
    THEN LET schema == O.schema.schema
             columns == [i \in DOMAIN schema |-> schema[i][1] \o " " \o fmt(schema[i][2])]
             columns_str == Join(columns, ", ")
         IN OkText("CREATE TABLE IF NOT EXISTS " \o O.type_name \o " (" \o columns_str
                   \o ", PRIMARY KEY (" \o O.schema.primary_key \o "))")
    ELSE Err("Schema is not Postgres")

\* A call of a function without effects: fn is applied to arg; out is its result
\* once done.
Eval(fn, arg, out, done) == [fn |-> fn, arg |-> arg, out |-> out, done |-> done]

NoEval == Eval("none", <<>>, <<>>, FALSE)

Init ==
    /\ client = "none"
    /\ storage_url = ""
    /\ dirs = {}
    /\ files = <<>>
    /\ calls = EmptyBag
    /\ ret = Returned("none", "", "", <<>>)
    /\ eval = NoEval

\* The handles and background writes of unlinked files no longer reach the store.
Unlink(cs, gone) ==
    LET reaches == {call \in BagToSet(cs) : ~(call.pc = "buffered" /\ CallPath(call) \in gone)}
        dead == [call \in reaches |->
                    IF CallPath(call) \in gone THEN [call EXCEPT !.live = FALSE] ELSE call]
    IN MapBag(FilterBag(cs, reaches), dead)

\* Faulty variant: no check of the path.
NewResultUnchecked(path, io) ==
    IF io = "io_error" THEN Err("IO")
    ELSE OkUnit

\* The result of new: the path check comes before create_dir_all.
NewResult(path, io) ==
    IF path = "" THEN Err("Config")
    ELSE IF io = "io_error" THEN Err("IO")
    ELSE OkUnit

\* FileStorageClient::new
New(path, io) ==
    /\ client = "none"
    /\ LET r == NewResult(path, io)
       IN /\ ret' = Returned("new", "", "", r)
          /\ IF r = OkUnit
             THEN /\ dirs' = CreateDirAll(dirs, <<path>>)
                  /\ client' = "ready"
                  /\ storage_url' = path
             ELSE UNCHANGED <<client, storage_url, dirs>>
    /\ UNCHANGED <<eval, files, calls>>

\* Faulty variant: create_dir, which fails on an existing directory.
CreateDirAllResultStrict(ds, p, io) ==
    IF io = "io_error" THEN Err("IO")
    ELSE IF p \in ds THEN Err("AlreadyExists")
    ELSE OkUnit

\* The result of create_dir_all: an existing directory is no error.
CreateDirAllResult(ds, p, io) ==
    IF io = "io_error" THEN Err("IO")
    ELSE OkUnit

\* FileStorageClient::create_object_directory
CreateObjectDirectory(t, io) ==
    /\ client = "ready"
    /\ LET r == CreateDirAllResult(dirs, ObjectDirPath(t), io)
       IN /\ ret' = Returned("create_object_directory", t, "", r)
          /\ IF r = OkUnit
             THEN dirs' = CreateDirAll(dirs, ObjectDirPath(t))
             ELSE UNCHANGED dirs
    /\ UNCHANGED <<eval, client, storage_url, files, calls>>

\* Faulty variant: bytes that do not decode are reported as absence.
GetResultLenient(fs, p, io) ==
    IF io = "io_error" THEN Err("IO")
    ELSE IF p \notin DOMAIN fs THEN Err("NotFound")
    ELSE IF Decodable(fs[p]) THEN OkSome(deserialize(fs[p]))
    ELSE OkNone

\* The result of get: tokio::fs::read, then deserialize.
GetResult(fs, p, io) ==
    IF io = "io_error" THEN Err("IO")
    ELSE IF p \notin DOMAIN fs THEN Err("NotFound")
    ELSE IF Decodable(fs[p]) THEN OkSome(deserialize(fs[p]))
    ELSE Err("Serde")

\* FileStorageClient::get
Get(t, k, io) ==
    /\ client = "ready"
    /\ ret' = Returned("get", t, k, GetResult(files, object_path(t, k), io))
    /\ UNCHANGED <<eval, client, storage_url, dirs, files, calls>>

\* Faulty variant: the file is created whether or not its directory exists.
CreateResultLenient(ds, p, io) ==
    IF io = "io_error" THEN Err("IO")
    ELSE OkUnit

\* The result of File::create.
CreateResult(ds, p, io) ==
    IF io = "io_error" THEN Err("IO")
    ELSE IF Parent(p) \notin ds THEN Err("NotFound")
    ELSE OkUnit

\* Another put call has created the same file and not yet returned.
Overlaps(cs, p) == \E d \in BagToSet(cs) : d.pc = "created" /\ CallPath(d) = p

\* The calls in cs on file p are no longer alone.
Overlapped(cs, p) ==
    LET mark == [d \in BagToSet(cs) |->
                    IF d.pc = "created" /\ CallPath(d) = p THEN [d EXCEPT !.alone = FALSE] ELSE d]
    IN MapBag(cs, mark)

\* FileStorageClient::put, up to File::create.
PutCreate(t, k, v, io) ==
    /\ client = "ready"
    /\ BagCardinality(calls) < NumCalls
    /\ LET p == object_path(t, k)
           r == CreateResult(dirs, p, io)
       IN IF IsErr(r)
          THEN /\ ret' = Returned("put", t, k, r)
               /\ UNCHANGED <<files, calls>>
          ELSE /\ files' = CreateTruncate(files, p)
               /\ calls' = Overlapped(calls, p) (+) One(Call("created", t, k, v, TRUE, ~Overlaps(calls, p)))
               /\ UNCHANGED ret
    /\ UNCHANGED <<eval, client, storage_url, dirs>>

\* The background write a put leaves behind: write_all hands the bytes to the
\* file and put returns without a flush.
Buffered(call) ==
    IF call.live
    THEN One(Call("buffered", call.type, call.key, serialize(call.arg), TRUE, call.alone))
    ELSE EmptyBag

\* FileStorageClient::put, from serialize to its return.
PutWrite(call) ==
    /\ call.pc = "created"
    /\ IF SerializeFails(call.arg)
       THEN /\ ret' = Returned("put", call.type, call.key, Err("Serde"))
            /\ calls' = calls (-) One(call)
       ELSE /\ ret' = Returned("put", call.type, call.key, OkUnit)
            /\ calls' = (calls (-) One(call)) (+) Buffered(call)
    /\ UNCHANGED <<eval, client, storage_url, dirs, files>>

\* The background write of a put that has returned: tokio's File copies the
\* bytes of write_all into its buffer, starts the write on the blocking pool and
\* reports write_all complete; only flush, which put does not call, waits for it.
\* The handle writes at its own offset 0, whatever the file holds by then.
BlockingWrite(call) ==
    /\ call.pc = "buffered"
    /\ files' = WriteFile(files, CallPath(call), call.arg)
    /\ calls' = calls (-) One(call)
    /\ UNCHANGED <<eval, client, storage_url, dirs, ret>>

\* Faulty variant: not-found is mapped to true.
RemoveResultAlwaysTrue(present, io) ==
    IF io = "io_error" THEN Err("IO")
    ELSE OkBool(TRUE)

\* The result of remove_file and of remove_dir_all as delete maps it.
RemoveResult(present, io) ==
    IF io = "io_error" THEN Err("IO")
    ELSE OkBool(present)

\* FileStorageClient::delete
Delete(t, k, io) ==
    /\ client = "ready"
    /\ LET p == object_path(t, k)
           r == RemoveResult(p \in DOMAIN files, io)
       IN /\ ret' = Returned("delete", t, k, r)
          /\ IF r = OkBool(TRUE)
             THEN /\ files' = RemoveFile(files, p)
                  /\ calls' = Unlink(calls, {p})
             ELSE UNCHANGED <<files, calls>>
    /\ UNCHANGED <<eval, client, storage_url, dirs>>

\* FileStorageClient::delete_object_directory
DeleteObjectDirectory(t, io) ==
    /\ client = "ready"
    /\ LET p == ObjectDirPath(t)
           r == RemoveResult(p \in dirs, io)
       IN /\ ret' = Returned("delete_object_directory", t, "", r)
          /\ IF r = OkBool(TRUE)
             THEN /\ dirs' = RemoveDirAllDirs(dirs, p)
                  /\ files' = RemoveDirAllFiles(files, p)
                  /\ calls' = Unlink(calls, DOMAIN files \ DOMAIN files')
             ELSE UNCHANGED <<dirs, files, calls>>
    /\ UNCHANGED <<eval, client, storage_url>>

\* Faulty variant: a missing root is no error.
DeleteAllResultIdempotent(path, ds, io) ==
    IF path = "" THEN Err("Config")
    ELSE IF io = "io_error" THEN Err("IO")
    ELSE OkUnit

\* The result of delete_all.
DeleteAllResult(path, ds, io) ==
    IF path = "" THEN Err("Config")
    ELSE IF io = "io_error" THEN Err("IO")
    ELSE IF <<path>> \notin ds THEN Err("NotFound")
    ELSE OkUnit

\* FileStorageClient::delete_all
DeleteAll(io) ==
    /\ client = "ready"
    /\ LET r == DeleteAllResult(storage_url, dirs, io)
       IN /\ ret' = Returned("delete_all", "", "", r)
          /\ IF r = OkUnit
             THEN /\ dirs' = RemoveDirAllDirs(dirs, <<storage_url>>)
                  /\ files' = RemoveDirAllFiles(files, <<storage_url>>)
                  /\ calls' = Unlink(calls, DOMAIN files \ DOMAIN files')
             ELSE UNCHANGED <<dirs, files, calls>>
    /\ UNCHANGED <<eval, client, storage_url>>

Next ==
    \/ \E path \in Paths, io \in IOOutcomes : New(path, io)
    \/ \E t \in Types, io \in IOOutcomes : CreateObjectDirectory(t, io)
    \/ \E t \in Types, k \in Keys, io \in IOOutcomes : Get(t, k, io)
    \/ \E t \in Types, k \in Keys, v \in Objects, io \in IOOutcomes : PutCreate(t, k, v, io)
    \/ \E call \in BagToSet(calls) : PutWrite(call)
    \/ \E call \in BagToSet(calls) : BlockingWrite(call)
    \/ \E t \in Types, k \in Keys, io \in IOOutcomes : Delete(t, k, io)
    \/ \E t \in Types, io \in IOOutcomes : DeleteObjectDirectory(t, io)
    \/ \E io \in IOOutcomes : DeleteAll(io)

Spec == Init /\ [][Next]_vars

----------------------------------------------------------------------------
\* The functions without effects, each applied to one argument.

\* serialize, then deserialize what it returned.
RoundTripResult(v) ==
    IF SerializeFails(v) THEN Err("Serde")
    ELSE IF Decodable(serialize(v)) THEN <<"Ok">> \o deserialize(serialize(v))
    ELSE Err("Serde")

FormatInit ==
    /\ client = "none"
    /\ storage_url = ""
    /\ dirs = {}
    /\ files = <<>>
    /\ calls = EmptyBag
    /\ ret = Returned("none", "", "", <<>>)
    /\ \/ \E t \in PostgresTypes : eval = Eval("fmt", t, <<>>, FALSE)
       \/ \E O \in StorageObjects :
             eval = Eval("create_table_if_not_exists_query", O, <<>>, FALSE)
       \/ \E v \in Objects \cup FloatObjects : eval = Eval("round_trip", v, <<>>, FALSE)

\* format!("{}", typ)
Fmt ==
    /\ eval.fn = "fmt"
    /\ ~eval.done
    /\ eval' = Eval(eval.fn, eval.arg, <<fmt(eval.arg)>>, TRUE)
    /\ UNCHANGED <<client, storage_url, dirs, files, calls, ret>>

\* PostgresStorageClient::create_table_if_not_exists_query::<O>()
CreateTableIfNotExistsQuery ==
    /\ eval.fn = "create_table_if_not_exists_query"
    /\ ~eval.done
    /\ eval' = Eval(eval.fn, eval.arg, create_table_if_not_exists_query(eval.arg), TRUE)
    /\ UNCHANGED <<client, storage_url, dirs, files, calls, ret>>

\* F::deserialize(&F::serialize(&obj)?)
RoundTrip ==
    /\ eval.fn = "round_trip"
    /\ ~eval.done
    /\ eval' = Eval(eval.fn, eval.arg, RoundTripResult(eval.arg), TRUE)
    /\ UNCHANGED <<client, storage_url, dirs, files, calls, ret>>

FormatNext ==
    \/ Fmt
    \/ CreateTableIfNotExistsQuery
    \/ RoundTrip

FormatSpec == FormatInit /\ [][FormatNext]_vars

----------------------------------------------------------------------------
\* The claims.

Root == <<storage_url>>

\* What a get with no I/O failure returns for (t, k) from the store fs.
Reads(fs, t, k) == GetResult(fs, object_path(t, k), "ok")

\* C1: after a successful put(k, v) that no other put on the key overlapped,
\* get(k) returns Some(v): stated at the return of the put, for a get issued next.
C1_PutThenGet ==
    [][\A call \in BagToSet(calls) :
          (PutWrite(call) /\ call.live /\ call.alone /\ ret'.res = OkUnit)
          => Reads(files', call.type, call.key) = OkSome(call.arg)]_vars

\* C2: get on a key with no stored entry returns Ok(None), not an error.
C2_AbsentIsNone ==
    [][\A t \in Types, k \in Keys :
          (Get(t, k, "ok") /\ object_path(t, k) \notin DOMAIN files)
          => ret'.res = OkNone]_vars

\* C3: delete returns Ok(true) exactly when the entry was stored before the call,
\* and the entry is gone afterwards; on an absent entry it returns Ok(false), never
\* an error for not-found, and changes nothing.
C3_Delete ==
    [][\A t \in Types, k \in Keys, io \in IOOutcomes :
          Delete(t, k, io) =>
            LET p == object_path(t, k)
            IN /\ io = "ok" => ret'.res = OkBool(p \in DOMAIN files)
               /\ ret'.res = OkBool(TRUE) => p \in DOMAIN files /\ p \notin DOMAIN files'
               /\ ret'.res = OkBool(FALSE) => p \notin DOMAIN files /\ files' = files
               /\ ret'.res # Err("NotFound")
               /\ IsOk(ret'.res) => p \notin DOMAIN files']_vars

\* A delete has returned true and its entry is gone, its partition still there.
C3_Witness ==
    /\ ret.op = "delete"
    /\ ret.res = OkBool(TRUE)
    /\ object_path(ret.type, ret.key) \notin DOMAIN files
    /\ ObjectDirPath(ret.type) \in dirs

C6_DeleteObjectDirectory ==
    [][\A t \in Types, io \in IOOutcomes :
          DeleteObjectDirectory(t, io) =>
            LET p == ObjectDirPath(t)
            IN /\ io = "ok" => ret'.res = OkBool(p \in dirs)
               /\ ret'.res = OkBool(TRUE) =>
                    /\ p \in dirs
                    /\ p \notin dirs'
                    /\ \A f \in DOMAIN files' : ~IsPrefix(p, f)
               /\ ret'.res = OkBool(FALSE) =>
                    /\ p \notin dirs
                    /\ dirs' = dirs
                    /\ files' = files
               /\ ret'.res # Err("NotFound")]_vars

\* delete_object_directory has returned true while a put into the partition was
\* in flight: the partition is gone and no file is left under it.
C6_Witness ==
    /\ ret.op = "delete_object_directory"
    /\ ret.res = OkBool(TRUE)
    /\ ObjectDirPath(ret.type) \notin dirs
    /\ \E call \in BagToSet(calls) : call.type = ret.type /\ ~call.live
    /\ \A f \in DOMAIN files : ~IsPrefix(ObjectDirPath(ret.type), f)

\* C7: delete_all on an existing store succeeds and leaves neither the root
\* directory nor any partition nor any entry; with an empty root path it fails.
C7_DeleteAll ==
    [][\A io \in IOOutcomes :
          DeleteAll(io) =>
            /\ (io = "ok" /\ Root \in dirs) => ret'.res = OkUnit
            /\ ret'.res = OkUnit =>
                 /\ Root \in dirs
                 /\ \A d \in dirs' : ~IsPrefix(Root, d)
                 /\ \A f \in DOMAIN files' : ~IsPrefix(Root, f)
            /\ IsErr(DeleteAllResult("", dirs, io))]_vars

\* delete_all has returned Ok after partitions were created and a put was in
\* flight: nothing of the store is left.
C7_Witness ==
    /\ ret.op = "delete_all"
    /\ ret.res = OkUnit
    /\ dirs = {}
    /\ files = <<>>
    /\ \E call \in BagToSet(calls) : ~call.live

\* C8: new with an empty path fails and touches nothing of the filesystem; when
\* new succeeds the path is not empty and the root directory exists.
C8_Construction ==
    [][\A path \in Paths, io \in IOOutcomes :
          New(path, io) =>
            /\ path = "" =>
                 /\ IsErr(ret'.res)
                 /\ dirs' = dirs
                 /\ files' = files
                 /\ client' = "none"
            /\ ret'.res = OkUnit =>
                 /\ path # ""
                 /\ <<path>> \in dirs'
                 /\ client' = "ready"]_vars

\* new has failed on the empty path and no directory exists.
C8_Witness ==
    /\ ret.op = "new"
    /\ ret.res = Err("Config")
    /\ client = "none"
    /\ dirs = {}

\* The bytes of w that stay behind a shorter write of v at offset 0.
Leftover(v, w) == SubSeq(serialize(w), Len(serialize(v)) + 1, Len(serialize(w)))

\* A background write on (t, k) after which no other put on (t, k) is in flight.
LastWrite(call) ==
    /\ BlockingWrite(call)
    /\ \A d \in BagToSet(calls') : CallPath(d) # CallPath(call)

\* C9 as claimed: once the last of the concurrent writes on a key is applied,
\* the file holds exactly the bytes of that write.
C9_LastWriterExact ==
    [][\A call \in BagToSet(calls) :
          LastWrite(call) => files'[CallPath(call)] = call.arg]_vars

\* What a file can hold: nothing, the encoding of a value, or the encoding of
\* a value followed by the remaining bytes of a longer encoding.
WrittenOver(data) ==
    \E v \in Payloads :
       \/ data = serialize(v)
       \/ \E w \in Payloads :
             /\ Len(serialize(w)) > Len(serialize(v))
             /\ data = serialize(v) \o Leftover(v, w)

\* C9 as amended: a file is empty, or it begins with the whole encoding of one
\* value, followed by nothing or by the rest of a longer encoding; after a
\* background write the file begins with the bytes written, and is exactly
\* these bytes unless it held more bytes before.
C9_LastWriterPrefix ==
    /\ [](\A p \in DOMAIN files : files[p] = NoBytes \/ WrittenOver(files[p]))
    /\ [][\A call \in BagToSet(calls) :
             BlockingWrite(call) =>
                LET p == CallPath(call)
                IN /\ IsPrefix(call.arg, files'[p])
                   /\ Len(files[p]) <= Len(call.arg) => files'[p] = call.arg
                   /\ Len(files'[p]) >= Len(files[p])]_vars

\* Two puts of different values on one key have both returned and both
\* writes are applied: the file holds the shorter encoding, written last,
\* and the last byte of the longer one.
C9_Witness ==
    /\ calls = EmptyBag
    /\ ret.op = "put"
    /\ ret.res = OkUnit
    /\ \E p \in DOMAIN files, v \in Payloads, w \in Payloads :
          /\ Len(serialize(w)) > Len(serialize(v))
          /\ files[p] = serialize(v) \o Leftover(v, w)

\* C10: get on an entry whose bytes are not the encoding of an object returns
\* a serialization error, an access failure is returned as an error too, and
\* get changes nothing in the store.
C10_GetUndecodable ==
    [][\A t \in Types, k \in Keys, io \in IOOutcomes :
          Get(t, k, io) =>
            LET p == object_path(t, k)
            IN /\ (io = "ok" /\ p \in DOMAIN files /\ \A v \in Payloads : files[p] # serialize(v))
                    => ret'.res = Err("Serde")
               /\ io = "io_error" => IsErr(ret'.res)
               /\ files' = files
               /\ dirs' = dirs]_vars

\* get has returned a serialization error on an entry left by two overlapping
\* writes, and the entry is still there.
C10_Witness ==
    /\ ret.op = "get"
    /\ ret.res = Err("Serde")
    /\ object_path(ret.type, ret.key) \in DOMAIN files
    /\ Len(files[object_path(ret.type, ret.key)]) > 0
    /\ \A v \in Payloads : files[object_path(ret.type, ret.key)] # serialize(v)

\* C14: create_object_directory returns an error if the subdirectory of the
\* type already exists.
C14_CreateExistingFails ==
    [][\A t \in Types :
          (CreateObjectDirectory(t, "ok") /\ ObjectDirPath(t) \in dirs)
          => IsErr(ret'.res)]_vars

\* A put of v on an entry that is to return an error: File::create fails, or
\* serialize fails after it.
PutFails(t, k, v, io) == IsErr(CreateResult(dirs, object_path(t, k), io)) \/ SerializeFails(v)

\* C16: a put that returns an error leaves the store unchanged: a value stored
\* under the key before the call is what get returns after it.
C16_AllOrNothing ==
    [][\A t \in Types, k \in Keys, v \in Objects, io \in IOOutcomes :
          (PutCreate(t, k, v, io) /\ PutFails(t, k, v, io) /\ IsOk(Reads(files, t, k)))
          => /\ files' = files
             /\ Reads(files', t, k) = Reads(files, t, k)]_vars

\* C17: a put issued while the partition of its type does not exist returns an
\* error and creates neither the partition nor the entry.
C17_PutNeedsPartition ==
    [][\A t \in Types :
          ObjectDirPath(t) \notin dirs =>
             \A k \in Keys, v \in Objects, io \in IOOutcomes :
                PutCreate(t, k, v, io)
                => /\ ret'.op = "put"
                   /\ IsErr(ret'.res)
                   /\ dirs' = dirs
                   /\ files' = files
                   /\ calls' = calls]_vars

\* A put has returned not-found with the store constructed and the partition
\* of its type missing, and no file is under that partition.
C17_Witness ==
    /\ client = "ready"
    /\ ret.op = "put"
    /\ ret.res = Err("NotFound")
    /\ ObjectDirPath(ret.type) \notin dirs
    /\ object_path(ret.type, ret.key) \notin DOMAIN files

\* Every file but p is in both stores with the same bytes.
SameExcept(fs, gs, p) ==
    \A f \in (DOMAIN fs \cup DOMAIN gs) \ {p} :
       f \in DOMAIN fs /\ f \in DOMAIN gs /\ fs[f] = gs[f]

C19_DeleteAllNotIdempotent ==
    [][/\ Root \notin dirs =>
             \A io \in IOOutcomes :
                DeleteAll(io) => IsErr(ret'.res) /\ dirs' = dirs /\ files' = files
       /\ \A t \in Types :
             /\ \A k \in Keys :
                   object_path(t, k) \notin DOMAIN files =>
                      (Delete(t, k, "ok") => ret'.res = OkBool(FALSE))
             /\ ObjectDirPath(t) \notin dirs =>
                   (DeleteObjectDirectory(t, "ok") => ret'.res = OkBool(FALSE))]_vars

\* delete_all has returned not-found: the root directory was already removed.
C19_Witness ==
    /\ client = "ready"
    /\ ret.op = "delete_all"
    /\ ret.res = Err("NotFound")
    /\ Root \notin dirs

\* The entries of a schema, rendered one after the other and separated by ", ".
ColumnList(schema) ==
    LET c[i \in 0..Len(schema)] ==
          IF i = 0 THEN ""
          ELSE (IF i = 1 THEN "" ELSE c[i - 1] \o ", ")
               \o schema[i][1] \o " " \o fmt(schema[i][2])
    IN c[Len(schema)]

\* The object type of the repository's test: schema {key: Integer,
\* value: VARCHAR(255)}, primary key key, type name TestObject.
TestObjectType ==
    StorageObject("TestObject",
                  StorageSchema("Postgres",
                                << <<"key", <<"Integer">>>>, <<"value", <<"VARCHAR", 255>>>> >>,
                                "key"))

\* C11: for an object type with a Postgres schema the query is exactly
\* CREATE TABLE IF NOT EXISTS <type_name> (<columns>, PRIMARY KEY (<primary_key>)),
\* the columns '<name> <rendered type>' in insertion order joined by ", "; for
\* the test's object type it is the text the test expects.
C11_Query ==
    (eval.fn = "create_table_if_not_exists_query" /\ eval.done
       /\ eval.arg.schema.variant = "Postgres")
    => /\ eval.out = OkText("CREATE TABLE IF NOT EXISTS " \o eval.arg.type_name \o " ("
                            \o ColumnList(eval.arg.schema.schema) \o ", PRIMARY KEY ("
                            \o eval.arg.schema.primary_key \o "))")
       /\ eval.arg = TestObjectType
          => eval.out = OkText("CREATE TABLE IF NOT EXISTS TestObject (key INTEGER, value VARCHAR(255), PRIMARY KEY (key))")

\* The query of the test's object type has been built.
C11_Witness ==
    /\ eval.fn = "create_table_if_not_exists_query"
    /\ eval.done
    /\ eval.arg = TestObjectType
    /\ eval.out[1] = "Ok"

\* The rendering table, the precision and the scale of NUMERIC separated by sep.
RenderingTable(t, sep) ==
    CASE t[1] = "Numeric" ->
            IF t[2] # None /\ t[3] # None
            THEN "NUMERIC(" \o ToString(t[2][1]) \o sep \o ToString(t[3][1]) \o ")"
            ELSE "NUMERIC"
      [] t[1] = "BPCHAR" ->
            IF t[2] # None THEN "BPCHAR(" \o ToString(t[2][1]) \o ")" ELSE "BPCHAR"
      [] t[1] \in {"VARCHAR", "CHAR"} -> t[1] \o "(" \o ToString(t[2]) \o ")"
      [] t[1] \in {"TIMESTAMP", "TIME"} ->
            t[1] \o (IF t[2] THEN " WITH TIME ZONE" ELSE " WITHOUT TIME ZONE")
      [] OTHER ->
            [SmallInt |-> "SMALLINT", Integer |-> "INTEGER", BigInt |-> "BIGINT",
             Decimal |-> "DECIMAL", Real |-> "REAL",
             DoublePrecision |-> "DOUBLE PRECISION", SmallSerial |-> "SMALLSERIAL",
             Serial |-> "SERIAL", BigSerial |-> "BIGSERIAL", TEXT |-> "TEXT",
             BYTEA |-> "BYTEA", DATE |-> "DATE", BOOLEAN |-> "BOOLEAN"][t[1]]

\* C12 as stated: every PostgresType renders to the text of the rendering table,
\* Numeric with precision and scale as NUMERIC(p,s).
C12_RenderingExact ==
    (eval.fn = "fmt" /\ eval.done) => eval.out = <<RenderingTable(eval.arg, ",")>>

\* C12: every PostgresType renders to the text of the rendering table, but
\* Numeric with precision and scale renders as NUMERIC(p, s), a space after
\* the comma.
C12_RenderingSpaced ==
    (eval.fn = "fmt" /\ eval.done) => eval.out = <<RenderingTable(eval.arg, ", ")>>

\* A Numeric with precision and scale has been rendered.
C12_Witness ==
    /\ eval.fn = "fmt"
    /\ eval.done
    /\ eval.arg = <<"Numeric", Some(5), Some(-2)>>
    /\ eval.out = <<"NUMERIC(5, -2)">>

\* C13: for an object type whose schema is the Standard variant the query is an
\* error and no text, whatever the columns and the primary key.
C13_SchemaMismatch ==
    (eval.fn = "create_table_if_not_exists_query" /\ eval.done
       /\ eval.arg.schema.variant = "Standard")
    => eval.out = Err("Schema is not Postgres")

\* The query has been asked for an object type with a Standard schema of two
\* columns.
C13_Witness ==
    /\ eval.fn = "create_table_if_not_exists_query"
    /\ eval.done
    /\ eval.arg.schema.variant = "Standard"
    /\ Len(eval.arg.schema.schema) = 2
    /\ IsErr(eval.out)

HasNonFinite(v) == \E i \in 1..Len(v) : v[i] = "NaN"

====
